---------------------------- MODULE Spec2Model ----------------------------
(***************************************************************************)
(* A model of src/util/FileIO.py : the registry resolver (read_yaml), the  *)
(* loader of one dataset (read_dataset_files), the class assigner          *)
(* (get_classes), the sample partitioner (get_samples), the directory      *)
(* scanner (get_dataset_ids) and the batch aggregator (read_dfdict_data).  *)
(*                                                                         *)
(* Text.  A Python str is a sequence of atoms.  The separators "/", "."    *)
(* and "_" are atoms of their own; every other atom is a piece of text     *)
(* that holds no separator ("a", "RDP", "otu", ...).  No atom is the       *)
(* concatenation of other atoms, so two sequences are equal exactly when   *)
(* the strings are.                                                        *)
(*                                                                         *)
(* Each entry point has a specification of its own (SpecYaml, SpecLoad,    *)
(* SpecClasses, SpecSamples, SpecScan, SpecBatch); its Init draws the      *)
(* call's arguments and the files it reads from bounded sets, and its      *)
(* actions are the steps of the call.  The variables of the other entry    *)
(* points rest at Null meanwhile.                                          *)
(***************************************************************************)
EXTENDS Naturals, Sequences, FiniteSets

VARIABLES
    pc,              \* position of the running call
    batch_data_dir,  \* read_yaml: argument
    registry,        \* read_yaml: what yaml.load returned, as it was in the file
    datasets,        \* read_yaml: the dict being filled in place
    keys,            \* read_yaml: dataset ids the for loop has still to visit
    printed,         \* read_yaml: dataset ids of the warnings printed
    clean_folder,    \* the directory read: file name -> rows of the file
    datasetid,       \* read_dataset_files: argument
    meta,            \* the metadata table (argument or local)
    df,              \* the abundance table (local)
    classes_list,    \* get_samples: argument; get_classes: result
    ret,             \* what the running call returned (NotReturned before, and on raise)
    datasetids,      \* read_dfdict_data: ids the for loop has still to visit
    visited,         \* read_dfdict_data: ids the loop body was entered for, in order
    dfdict           \* read_dfdict_data: the mapping being built

vars == <<pc, batch_data_dir, registry, datasets, keys, printed, clean_folder,
          datasetid, meta, df, classes_list, ret, datasetids, visited, dfdict>>

yamlVars  == <<batch_data_dir, registry, datasets, keys, printed>>
tableVars == <<datasetid, meta, df, classes_list>>
batchVars == <<datasetids, visited, dfdict>>

Null == "null"        \* Python None / not yet assigned
NaN  == "nan"         \* the float nan pandas stores for a missing value

-----------------------------------------------------------------------------
(* Sequences and text                                                      *)

Range(s) == { s[k] : k \in DOMAIN s }

SeqsUpTo(S, n) == UNION { [1..k -> S] : k \in 0..n }

\* all orders in which the elements of a finite set can be listed
Orders(S) == { s \in [1..Cardinality(S) -> S] : Range(s) = S }

NoDuplicates(s) == \A a, b \in DOMAIN s : s[a] = s[b] => a = b

Positions(s, c) == { k \in DOMAIN s : s[k] = c }

Min(S) == CHOOSE x \in S : \A y \in S : x <= y
Max(S) == CHOOSE x \in S : \A y \in S : y <= x

\* s.split(c)[0] : the text before the first c, all of s when it holds no c
SplitFirst(s, c) ==
    IF Positions(s, c) = {} THEN s ELSE SubSeq(s, 1, Min(Positions(s, c)) - 1)

\* s.rsplit(c, 1)[0] : the text before the last c, all of s when it holds no c
RSplitFirst(s, c) ==
    IF Positions(s, c) = {} THEN s ELSE SubSeq(s, 1, Max(Positions(s, c)) - 1)

StartsWith(s, p) == Len(p) <= Len(s) /\ SubSeq(s, 1, Len(p)) = p

Prefixes(s) == { SubSeq(s, 1, k) : k \in 0..Len(s) }

-----------------------------------------------------------------------------
(* get_dataset_ids                                                         *)

OtuClean  == <<".", "otu", "_", "table", ".", "clean">>   \* '.otu_table.clean'
MetaClean == <<".", "metadata", ".", "clean">>            \* '.metadata.clean'

\* set([i.split('.')[0] for i in files])
CandidateIds(files) == { SplitFirst(f, ".") : f \in files }

KeepsEither(files, d) == (d \o OtuClean) \in files \/ (d \o MetaClean) \in files

\* d + '.otu_table.clean' in files and d + '.metadata.clean' in files
Keeps(files, d) == (d \o OtuClean) \in files /\ (d \o MetaClean) \in files

\* the list comprehension over datasets = list(set(...)), whose order is `order`
get_dataset_ids(files, order) == SelectSeq(order, LAMBDA d : Keeps(files, d))


MaxFiles == 4     \* most files in a scanned directory

\* what a file name of a scanned directory may hold before its suffix:
\* nothing, a plain id, text with dots of its own
Stems    == { <<>>, <<"A">>, <<"B">>, <<".">>, <<"A", ".">>, <<"A", ".", "B">> }
Suffixes == { <<>>, OtuClean, MetaClean }

\* the file names a scanned directory may hold
ScanNames == { st \o su : st \in Stems, su \in Suffixes } \ { <<>> }

RECURSIVE SubsetsUpTo(_, _)
SubsetsUpTo(S, n) ==
    IF n = 0 THEN { {} }
    ELSE LET P == SubsetsUpTo(S, n - 1)
         IN  P \cup { p \cup {x} : p \in P, x \in S }

NoRows == << >>

NotReturned == [returned |-> FALSE]
Returned(v) == [returned |-> TRUE, value |-> v]

InitScan ==
    /\ pc = "get_dataset_ids"
    /\ \E S \in SubsetsUpTo(ScanNames, MaxFiles) : clean_folder = [f \in S |-> NoRows]
    /\ ret = NotReturned
    /\ batch_data_dir = Null /\ registry = Null /\ datasets = Null
    /\ keys = Null /\ printed = Null
    /\ datasetid = Null /\ meta = Null /\ df = Null /\ classes_list = Null
    /\ datasetids = Null /\ visited = Null /\ dfdict = Null

\* get_dataset_ids(clean_folder), lines 182-186; files = os.listdir(clean_folder)
GetDatasetIds ==
    /\ pc = "get_dataset_ids"
    /\ \E order \in Orders(CandidateIds(DOMAIN clean_folder)) :
          ret' = Returned(get_dataset_ids(DOMAIN clean_folder, order))
    /\ pc' = "returned"
    /\ UNCHANGED <<clean_folder, yamlVars, tableVars, batchVars>>

NextScan == GetDatasetIds

SpecScan == InitScan /\ [][NextScan]_vars

\* C7: get_dataset_ids returns a list without duplicates that holds d exactly
\* when d is the text before the first '.' of some file name of the directory
\* and both d.otu_table.clean and d.metadata.clean are file names of it.
IsTextBeforeFirstDot(d, f) ==
    /\ "." \notin Range(d)
    /\ \/ f = d
       \/ StartsWith(f, d \o <<".">>)

C7_ScanIffBothPresent ==
    pc = "returned" =>
        LET files == DOMAIN clean_folder
            out   == ret.value
        IN  /\ NoDuplicates(out)
            /\ \A d \in UNION { Prefixes(f) : f \in files } \cup Range(out) :
                  d \in Range(out) <=>
                     /\ \E f \in files : IsTextBeforeFirstDot(d, f)
                     /\ \E f \in files : f = d \o <<".", "otu", "_", "table", ".", "clean">>
                     /\ \E f \in files : f = d \o <<".", "metadata", ".", "clean">>

\* the spec's example: A complete, B without its metadata, yields A alone
C7_Witness ==
    /\ pc = "returned"
    /\ DOMAIN clean_folder = { <<"A">> \o OtuClean, <<"A">> \o MetaClean, <<"B">> \o OtuClean }
    /\ ret.value = << <<"A">> >>

-----------------------------------------------------------------------------
(* get_classes and get_samples                                             *)
(*                                                                         *)
(* A table (pandas DataFrame) is the sequence of its rows, in row order;   *)
(* a metadata row is [id |-> its index value, DiseaseState |-> its label]. *)

controls == <<"H", "nonCDI", "nonGVHD", "nonIBD">>
diseases == <<"ASD", "CD", "CDI", "CIRR", "CRC", "EDD", "GVHD", "HIV",
              "MHE", "NASH", "OB", "PAR", "PSA", "RA", "T1D", "T2D",
              "UC">>

\* the values of meta['DiseaseState'], row by row
DiseaseStateColumn(m) == [k \in DOMAIN m |-> m[k].DiseaseState]

\* set(meta['DiseaseState']); the nans of the column are no label of either
\* list however many of them the set keeps
DiseaseStateSet(m) == Range(DiseaseStateColumn(m))

get_classes_of_column(m, labels) ==
    << SelectSeq(DiseaseStateColumn(m), LAMBDA i : i \in Range(controls)),
       SelectSeq(DiseaseStateColumn(m), LAMBDA j : j \in Range(diseases)) >>

\* line 156, for labels = list(set(meta['DiseaseState'])) listed in some order
get_classes(m, labels) ==
    << SelectSeq(labels, LAMBDA i : i \in Range(controls)),
       SelectSeq(labels, LAMBDA j : j \in Range(diseases)) >>

\* list(meta[meta['DiseaseState'].isin(labels)].index)
IndexWhereIsin(m, labels) ==
    LET kept == SelectSeq(m, LAMBDA r : r.DiseaseState \in Range(labels))
    IN  [k \in DOMAIN kept |-> kept[k].id]

get_samples_same_list(m, cl) == << IndexWhereIsin(m, cl[1]), IndexWhereIsin(m, cl[1]) >>

\* lines 173-176
get_samples(m, cl) == << IndexWhereIsin(m, cl[1]), IndexWhereIsin(m, cl[2]) >>

MaxRows == 3      \* most rows of a metadata table handed to get_classes / get_samples

SampleIds == {"s1", "s2"}
Labels    == {"H", "nonIBD", "CD", "UC", "Unknown", NaN}

MetaRows      == [id : SampleIds, DiseaseState : Labels]
MetaTables(n) == SeqsUpTo(MetaRows, n)

\* the classes lists get_samples is called with: those get_classes can give and
\* others (an empty group, a label of neither vocabulary, one label in both)
LabelLists   == { <<>>, <<"H">>, <<"nonIBD", "H">>, <<"CD">>, <<"CD", "UC">>, <<"Unknown">> }
ClassesLists == { <<c, d>> : c \in LabelLists, d \in LabelLists }

InitRest ==
    /\ ret = NotReturned
    /\ batch_data_dir = Null /\ registry = Null /\ datasets = Null
    /\ keys = Null /\ printed = Null
    /\ clean_folder = Null /\ datasetid = Null /\ df = Null
    /\ datasetids = Null /\ visited = Null /\ dfdict = Null

InitClasses ==
    /\ pc = "get_classes"
    /\ meta \in MetaTables(MaxRows)
    /\ classes_list = Null
    /\ InitRest

\* get_classes(meta), lines 150-156
GetClasses ==
    /\ pc = "get_classes"
    /\ \E labels \in Orders(DiseaseStateSet(meta)) :
          /\ classes_list' = get_classes(meta, labels)
          /\ ret' = Returned(get_classes(meta, labels))
    /\ pc' = "returned"
    /\ UNCHANGED <<clean_folder, yamlVars, datasetid, meta, df, batchVars>>

NextClasses == GetClasses

SpecClasses == InitClasses /\ [][NextClasses]_vars

InitSamples ==
    /\ pc = "get_samples"
    /\ meta \in MetaTables(MaxRows)
    /\ classes_list \in ClassesLists
    /\ InitRest

\* get_samples(meta, classes_list), lines 173-176
GetSamples ==
    /\ pc = "get_samples"
    /\ ret' = Returned(get_samples(meta, classes_list))
    /\ pc' = "returned"
    /\ UNCHANGED <<clean_folder, yamlVars, tableVars, batchVars>>

NextSamples == GetSamples

SpecSamples == InitSamples /\ [][NextSamples]_vars

ControlVocabulary == {"H", "nonCDI", "nonGVHD", "nonIBD"}
DiseaseVocabulary == {"ASD", "CD", "CDI", "CIRR", "CRC", "EDD", "GVHD", "HIV", "MHE",
                      "NASH", "OB", "PAR", "PSA", "RA", "T1D", "T2D", "UC"}

\* C5: get_classes returns, for every metadata table and without raising,
\* [C, D] with C exactly the distinct DiseaseState values of the control
\* vocabulary and D exactly those of the disease vocabulary (17 labels), no
\* label twice, C and D disjoint, values of neither vocabulary in neither.
C5_ClassesAreVocabularyHits ==
    /\ Cardinality(Range(diseases)) = 17
    /\ pc \in {"get_classes", "returned"}
    /\ pc = "returned" =>
         LET present == { meta[k].DiseaseState : k \in DOMAIN meta }
             C == ret.value[1]
             D == ret.value[2]
         IN  /\ Range(C) = present \cap ControlVocabulary
             /\ Range(D) = present \cap DiseaseVocabulary
             /\ NoDuplicates(C) /\ NoDuplicates(D)
             /\ Range(C) \cap Range(D) = {}
             /\ \A v \in present \ (ControlVocabulary \cup DiseaseVocabulary) :
                   v \notin Range(C) \cup Range(D)

\* a table with a repeated control label, a disease label and a label of
\* neither vocabulary has been classified
C5_Witness ==
    /\ pc = "returned"
    /\ Len(meta) = 3
    /\ { meta[k].DiseaseState : k \in DOMAIN meta } = {"H", "Unknown"}
    /\ ret.value = << <<"H">>, <<>> >>

\* the rows of m, by position, whose DiseaseState is one of labels
RowsIn(m, labels) == { k \in DOMAIN m : \E a \in DOMAIN labels : labels[a] = m[k].DiseaseState }

\* out lists the index values of the rows at positions P, in row order
ListsRowsInOrder(out, m, P) ==
    /\ Len(out) = Cardinality(P)
    /\ \A k \in P : out[Cardinality({ a \in P : a <= k })] = m[k].id

\* C6: get_samples returns the index values of exactly the rows whose
\* DiseaseState is in C, then those of exactly the rows whose DiseaseState is
\* in D, each in metadata row order; a row of neither is in neither list.
C6_SamplesArePartitionInRowOrder ==
    pc = "returned" =>
        /\ ListsRowsInOrder(ret.value[1], meta, RowsIn(meta, classes_list[1]))
        /\ ListsRowsInOrder(ret.value[2], meta, RowsIn(meta, classes_list[2]))

\* the spec's example: rows s1:H, s2:CD and one Unknown, classes [[H],[CD]]
C6_Witness ==
    /\ pc = "returned"
    /\ classes_list = << <<"H">>, <<"CD">> >>
    /\ Len(meta) = 3
    /\ meta[1] = [id |-> "s1", DiseaseState |-> "H"]
    /\ meta[2] = [id |-> "s2", DiseaseState |-> "CD"]
    /\ meta[3].DiseaseState = "Unknown"
    /\ ret.value = << <<"s1">>, <<"s2">> >>

-----------------------------------------------------------------------------
(* read_dataset_files                                                      *)
(*                                                                         *)
(* A clean file is the sequence of its data rows under the header; a row   *)
(* is <<text of the first column, text of the second column>>.  The values *)
(* pandas makes of the texts are tagged with their type:                   *)
(*   [t |-> "str", v |-> text], [t |-> "int", v |-> n],                    *)
(*   [t |-> "float", v |-> repr], [t |-> "nan"].                           *)

Str(text) == [t |-> "str", v |-> text]
Int(n)    == [t |-> "int", v |-> n]
Float(r)  == [t |-> "float", v |-> r]
Nan       == [t |-> "nan"]

\* pandas.read_csv's default na_values (keep_default_na, na_filter left on)
NaTexts == {"", "#N/A", "#N/A N/A", "#NA", "-1.#IND", "-1.#QNAN", "-NaN", "-nan",
            "1.#IND", "1.#QNAN", "N/A", "NA", "NULL", "NaN", "n/a", "nan", "null"}

\* the texts of the model that parse as an integer, and as a float only
IntTexts   == {"1001", "1002", "007"}
FloatTexts == {"1.50"}

IntOf(text) == CASE text = "1001" -> 1001 [] text = "1002" -> 1002 [] text = "007" -> 7

FloatOf(text) ==
    CASE text = "1001" -> "1001.0" [] text = "1002" -> "1002.0"
      [] text = "007" -> "7.0"     [] text = "1.50" -> "1.5"

FirstColumn(rows)  == [k \in DOMAIN rows |-> rows[k][1]]
SecondColumn(rows) == [k \in DOMAIN rows |-> rows[k][2]]

\* the values read_csv's type inference makes of a column of texts
Inferred(col) ==
    IF \A k \in DOMAIN col : col[k] \in IntTexts
    THEN [k \in DOMAIN col |-> Int(IntOf(col[k]))]
    ELSE IF \A k \in DOMAIN col : col[k] \in IntTexts \cup FloatTexts \cup NaTexts
    THEN [k \in DOMAIN col |-> IF col[k] \in NaTexts THEN Nan ELSE Float(FloatOf(col[k]))]
    ELSE [k \in DOMAIN col |-> IF col[k] \in NaTexts THEN Nan ELSE Str(col[k])]

\* the values read_csv(..., dtype=str) makes of a column: the text as written,
\* but for the na_values, which stay nan
ReadAsStr(col) == [k \in DOMAIN col |-> IF col[k] \in NaTexts THEN Nan ELSE Str(col[k])]

\* the dtype of an index holding the values vals ('O' is object)
IndexDtype(vals) ==
    IF vals = <<>> THEN "O"
    ELSE IF \A k \in DOMAIN vals : vals[k].t = "int" THEN "int64"
    ELSE IF \A k \in DOMAIN vals : vals[k].t \in {"float", "nan"} THEN "float64"
    ELSE "O"

\* a label column of a metadata file: text, nan for the na_values
LabelColumn(col) == [k \in DOMAIN col |-> IF col[k] \in NaTexts THEN NaN ELSE col[k]]

\* lines 123-131, the index of one table: read with index_col=0, then
\* if index.dtype != 'O': index = read_csv(..., dtype=str).iloc[:,0]
IndexOfLoaded(rows) ==
    IF IndexDtype(Inferred(FirstColumn(rows))) # "O"
    THEN ReadAsStr(FirstColumn(rows))
    ELSE Inferred(FirstColumn(rows))

\* df of read_dataset_files: the abundance table of the file rows
LoadedDf(rows) ==
    [k \in DOMAIN rows |-> [id |-> IndexOfLoaded(rows)[k], counts |-> rows[k][2]]]

\* meta of read_dataset_files: the metadata table of the file rows
LoadedMeta(rows) ==
    [k \in DOMAIN rows |->
        [id |-> IndexOfLoaded(rows)[k], DiseaseState |-> LabelColumn(SecondColumn(rows))[k]]]

fnotu(id)  == id \o OtuClean     \* line 120
fnmeta(id) == id \o MetaClean    \* line 121

MaxFileRows == 2     \* most data rows of a clean file

IdTexts    == {"s1", "1001", "007", "1.50", "NA"}
LoadLabels == {"H", "NA"}

OtuFiles(n)  == SeqsUpTo(IdTexts \X {"5"}, n)
MetaFiles(n) == SeqsUpTo(IdTexts \X LoadLabels, n)

\* the directories the loader is pointed at: either file of A may be missing
LoadFolders ==
    { [f \in {fnotu(<<"A">>)} |-> o] : o \in OtuFiles(1) }
    \cup { [f \in {fnmeta(<<"A">>)} |-> m] : m \in MetaFiles(1) }
    \cup { [f \in {fnotu(<<"A">>), fnmeta(<<"A">>)} |->
               IF f = fnotu(<<"A">>) THEN o ELSE m] :
           o \in OtuFiles(MaxFileRows), m \in MetaFiles(MaxFileRows) }

InitLoad ==
    /\ pc = "read_dataset_files"
    /\ datasetid = <<"A">>
    /\ clean_folder \in LoadFolders
    /\ meta = Null /\ df = Null /\ classes_list = Null
    /\ ret = NotReturned
    /\ batch_data_dir = Null /\ registry = Null /\ datasets = Null
    /\ keys = Null /\ printed = Null
    /\ datasetids = Null /\ visited = Null /\ dfdict = Null

\* read_dataset_files(datasetid, clean_folder), lines 120-133, both files there
ReadDatasetFiles ==
    /\ pc = "read_dataset_files"
    /\ fnotu(datasetid) \in DOMAIN clean_folder
    /\ fnmeta(datasetid) \in DOMAIN clean_folder
    /\ df' = LoadedDf(clean_folder[fnotu(datasetid)])
    /\ meta' = LoadedMeta(clean_folder[fnmeta(datasetid)])
    /\ ret' = Returned(<<df', meta'>>)
    /\ pc' = "returned"
    /\ UNCHANGED <<clean_folder, yamlVars, datasetid, classes_list, batchVars>>

\* lines 123-124: read_csv raises on a missing file and nothing catches it
ReadDatasetFilesRaises ==
    /\ pc = "read_dataset_files"
    /\ \/ fnotu(datasetid) \notin DOMAIN clean_folder
       \/ fnmeta(datasetid) \notin DOMAIN clean_folder
    /\ pc' = "raised"
    /\ UNCHANGED <<clean_folder, yamlVars, tableVars, batchVars, ret>>

NextLoad == ReadDatasetFiles \/ ReadDatasetFilesRaises

SpecLoad == InitLoad /\ [][NextLoad]_vars

\* the index values of a table, row by row
IndexOf(table) == [k \in DOMAIN table |-> table[k].id]

\* C4: the row index of both tables read_dataset_files returns is string-typed
\* and equals, element for element and in file order, the text of the file's
\* first column as written, also when every sample id looks numeric.
C4_IndexIsTextAsWritten ==
    pc = "returned" =>
        /\ IndexOf(ret.value[1])
             = [k \in DOMAIN clean_folder[fnotu(datasetid)] |->
                   [t |-> "str", v |-> clean_folder[fnotu(datasetid)][k][1]]]
        /\ IndexOf(ret.value[2])
             = [k \in DOMAIN clean_folder[fnmeta(datasetid)] |->
                   [t |-> "str", v |-> clean_folder[fnmeta(datasetid)][k][1]]]

\* the same, for the files none of whose sample ids is one of pandas' na_values
C4_IndexIsTextUnlessNaText ==
    (/\ pc = "returned"
     /\ \A f \in DOMAIN clean_folder : \A k \in DOMAIN clean_folder[f] :
           clean_folder[f][k][1] \notin NaTexts)
    => /\ IndexOf(ret.value[1])
             = [k \in DOMAIN clean_folder[fnotu(datasetid)] |->
                   [t |-> "str", v |-> clean_folder[fnotu(datasetid)][k][1]]]
       /\ IndexOf(ret.value[2])
             = [k \in DOMAIN clean_folder[fnmeta(datasetid)] |->
                   [t |-> "str", v |-> clean_folder[fnmeta(datasetid)][k][1]]]

-----------------------------------------------------------------------------
(* read_yaml                                                               *)
(*                                                                         *)
(* The registry is a function from dataset id to entry, an entry a         *)
(* function from the names of the fields it has to their values.  Paths    *)
(* are text with the atom "/".                                             *)

\* the process's working directory, and the one symbolic link of the file
\* system: /l points at /d
Cwd == <<"/", "w">>
LinkName   == <<"l">>
LinkTarget == <<"d">>

\* os.path.join(a, b)
join(a, b) ==
    IF StartsWith(b, <<"/">>) THEN b
    ELSE IF a = <<>> \/ a[Len(a)] = "/" THEN a \o b
    ELSE a \o <<"/">> \o b

\* s.split(c)
RECURSIVE SplitOn(_, _)
SplitOn(s, c) ==
    IF Positions(s, c) = {} THEN <<s>>
    ELSE LET k == Min(Positions(s, c))
         IN  <<SubSeq(s, 1, k - 1)>> \o SplitOn(SubSeq(s, k + 1, Len(s)), c)

\* the components of an absolute path that name something: not the empty
\* ones between slashes, not '.'  (the paths of the model hold no '..')
Components(p) == SelectSeq(SplitOn(p, "/"), LAMBDA c : c # <<>> /\ c # <<".">>)

\* a leading component that is the symbolic link is replaced by its target
FollowLink(comps) ==
    IF comps # <<>> /\ Head(comps) = LinkName THEN <<LinkTarget>> \o Tail(comps) ELSE comps

RECURSIVE FromComponents(_)
FromComponents(comps) ==
    IF comps = <<>> THEN <<>> ELSE <<"/">> \o Head(comps) \o FromComponents(Tail(comps))

\* os.path.realpath(p): the canonical absolute path of p
realpath(p) ==
    LET abs   == IF StartsWith(p, <<"/">>) THEN p ELSE join(Cwd, p)
        comps == FollowLink(Components(abs))
    IN  IF comps = <<>> THEN <<"/">> ELSE FromComponents(comps)

folder_prefix_first(folder) == SplitFirst(folder, "_")

\* folder.rsplit('_', 1)[0], lines 66 and 80
folder_prefix(folder) == RSplitFirst(folder, "_")

RdpAssigned == <<".", "otu", "_", "table", ".", "100", ".", "denovo", ".", "rdp", "_", "assigned">>
MetadataTxt == <<".", "metadata", ".", "txt">>
SummaryFile == <<"summary", "_", "file", ".", "txt">>

Has(data, field) == field \in DOMAIN data

\* data[field] = value
With(data, field, value) ==
    [g \in DOMAIN data \cup {field} |-> IF g = field THEN value ELSE data[g]]

\* lines 61-67
otu_table_path(base, folder) ==
    realpath(join(join(join(base, folder), <<"RDP">>), folder_prefix(folder) \o RdpAssigned))

\* lines 75-80
metadata_file_path(base, folder) ==
    realpath(join(join(base, folder), folder_prefix(folder) \o MetadataTxt))

\* lines 88-92
summary_file_path(base, folder) == realpath(join(join(base, folder), SummaryFile))

RaisesUnlessSummaryToo(data) ==
    /\ ~Has(data, "otu_table") \/ ~Has(data, "metadata_file") \/ ~Has(data, "summary_file")
    /\ ~Has(data, "folder")

\* lines 58-60, 68-69 and 72-74, 81-82: data['folder'] raises KeyError, which
\* is raised again as ValueError
RaisesValueError(data) ==
    /\ ~Has(data, "otu_table") \/ ~Has(data, "metadata_file")
    /\ ~Has(data, "folder")

\* lines 85-87, 93-94: the KeyError is caught and a message printed
PrintsNoSummary(data) == ~Has(data, "summary_file") /\ ~Has(data, "folder")

\* lines 58-67
OtuStep(data, base) ==
    IF Has(data, "otu_table") THEN data
    ELSE With(data, "otu_table", otu_table_path(base, data["folder"]))

\* lines 72-80
MetadataStep(data, base) ==
    IF Has(data, "metadata_file") THEN data
    ELSE With(data, "metadata_file", metadata_file_path(base, data["folder"]))

\* lines 85-94
SummaryStep(data, base) ==
    IF Has(data, "summary_file") \/ ~Has(data, "folder") THEN data
    ELSE With(data, "summary_file", summary_file_path(base, data["folder"]))

SetAlways(data, field, value) == With(data, field, value)

\* if field not in data: datasets[dataset][field] = value
SetDefault(data, field, value) ==
    IF Has(data, field) THEN data ELSE With(data, field, value)

\* lines 97-112
DefaultsStep(data) ==
    SetDefault(SetDefault(SetDefault(SetDefault(SetDefault(data,
        "region", <<"unk">>),
        "sequencer", <<"unk">>),
        "disease_label", <<"DiseaseState">>),
        "table_type", <<"classic">>),
        "year", <<"unk">>)

\* the body of the for loop, lines 55-112, for an entry that does not raise
Resolved(data, base) ==
    DefaultsStep(SummaryStep(MetadataStep(OtuStep(data, base), base), base))

MaxFolderLen == 3     \* longest folder name of a free registry entry

\* the folder names of the registry: text with any number of underscores
FolderAtoms == {"a", "_"}
Folders     == SeqsUpTo(FolderAtoms, MaxFolderLen) \ { <<>> }
NoFolder    == <<>>        \* stands for an entry without the 'folder' key

\* absolute and canonical; relative to the working directory; with a trailing
\* slash; through the symbolic link
BaseDirs == { <<"/", "d">>, <<"d">>, <<"/", "d", "/">>, <<"/", "l">> }

PathFields    == {"otu_table", "metadata_file", "summary_file"}
DefaultFields == {"region", "sequencer", "disease_label", "table_type", "year"}

\* the value a field has when the registry file gives it
Explicit(field) ==
    CASE field = "otu_table"     -> <<"/", "x", "/", "otu", ".", "txt">>
      [] field = "metadata_file" -> <<"x", "/", "meta", ".", "txt">>
      [] field = "summary_file"  -> <<"/", "x", "/", "summary", ".", "txt">>
      [] field = "region"        -> <<"V4">>
      [] field = "sequencer"     -> <<"454">>
      [] field = "disease_label" -> <<"Status">>
      [] field = "table_type"    -> <<"normal">>
      [] field = "year"          -> <<"2014">>
      [] field = "condition"     -> <<"extra">>

Entry(fields, folder) ==
    [f \in fields \cup (IF folder = NoFolder THEN {} ELSE {"folder"}) |->
        IF f = "folder" THEN folder ELSE Explicit(f)]

\* the entries of the free dataset: any of the path fields, any folder or
\* none, none, one or all of the defaulted fields, an extra field or not
FreeEntries ==
    { Entry(P \cup D \cup X, folder) :
        P \in SUBSET PathFields,
        D \in { {} , DefaultFields } \cup { {f} : f \in DefaultFields },
        X \in { {}, {"condition"} },
        folder \in Folders \cup { NoFolder } }

\* the entries of a second dataset of the registry
OtherEntries ==
    { Entry({}, <<"b", "_", "c", "_", "results">>),
      Entry({"otu_table", "metadata_file", "year"}, NoFolder),
      Entry({"otu_table", "region"}, NoFolder),
      Entry({"region"}, NoFolder) }

Registries ==
    { [d \in {"ds1"} |-> e] : e \in FreeEntries }
    \cup { [d \in {"ds1", "ds2"} |-> IF d = "ds1" THEN e ELSE o] :
             e \in FreeEntries, o \in OtherEntries }

InitYaml ==
    /\ pc = "read_yaml"
    /\ batch_data_dir \in BaseDirs
    /\ registry \in Registries
    /\ datasets = registry
    /\ keys \in Orders(DOMAIN registry)
    /\ printed = <<>>
    /\ ret = NotReturned
    /\ clean_folder = Null /\ datasetid = Null /\ meta = Null /\ df = Null
    /\ classes_list = Null
    /\ datasetids = Null /\ visited = Null /\ dfdict = Null

\* one pass of the for loop of line 53 that reaches line 112
ReadYamlEntry ==
    /\ pc = "read_yaml"
    /\ keys # <<>>
    /\ ~RaisesValueError(datasets[Head(keys)])
    /\ datasets' = [datasets EXCEPT ![Head(keys)] = Resolved(@, batch_data_dir)]
    /\ printed' = IF PrintsNoSummary(datasets[Head(keys)])
                  THEN Append(printed, Head(keys)) ELSE printed
    /\ keys' = Tail(keys)
    /\ UNCHANGED <<pc, ret, batch_data_dir, registry, clean_folder, tableVars, batchVars>>

\* one pass of the for loop that ends at line 69 or line 82
ReadYamlRaises ==
    /\ pc = "read_yaml"
    /\ keys # <<>>
    /\ RaisesValueError(datasets[Head(keys)])
    /\ pc' = "raised"
    /\ UNCHANGED <<ret, yamlVars, clean_folder, tableVars, batchVars>>

\* line 114
ReadYamlReturn ==
    /\ pc = "read_yaml"
    /\ keys = <<>>
    /\ ret' = Returned(datasets)
    /\ pc' = "returned"
    /\ UNCHANGED <<yamlVars, clean_folder, tableVars, batchVars>>

NextYaml == ReadYamlEntry \/ ReadYamlRaises \/ ReadYamlReturn

SpecYaml == InitYaml /\ [][NextYaml]_vars

\* the folder name cut at its last underscore: the p with folder = p _ rest
\* for a rest without underscore, the whole name when it has no underscore
IsCutAtLastUnderscore(p, folder) ==
    IF "_" \notin Range(folder) THEN p = folder
    ELSE \E rest \in Prefixes(folder) \cup { SubSeq(folder, k, Len(folder)) : k \in 1..Len(folder) + 1 } :
            /\ "_" \notin Range(rest)
            /\ folder = p \o <<"_">> \o rest

CutAtLastUnderscore(folder) == CHOOSE p \in Prefixes(folder) : IsCutAtLastUnderscore(p, folder)

\* <base>/<folder>/RDP/<prefix>.otu_table.100.denovo.rdp_assigned
OtuTemplate(base, folder) ==
    base \o <<"/">> \o folder \o <<"/", "RDP", "/">> \o CutAtLastUnderscore(folder)
         \o <<".", "otu", "_", "table", ".", "100", ".", "denovo", ".", "rdp", "_", "assigned">>

\* <base>/<folder>/<prefix>.metadata.txt
MetadataTemplate(base, folder) ==
    base \o <<"/">> \o folder \o <<"/">> \o CutAtLastUnderscore(folder)
         \o <<".", "metadata", ".", "txt">>

\* the entries with a folder whose path field is derived
DerivesOtu(d)      == Has(registry[d], "folder") /\ ~Has(registry[d], "otu_table")
DerivesMetadata(d) == Has(registry[d], "folder") /\ ~Has(registry[d], "metadata_file")

CanonicalBase(base) == base = <<"/", "d">>

C1_WitnessNoUnderscore ==
    /\ pc = "returned"
    /\ batch_data_dir = <<"/", "d">>
    /\ registry["ds1"] = Entry({}, <<"a", "a">>)
    /\ ret.value["ds1"]["otu_table"] = <<"/", "d", "/", "a", "a", "/", "RDP", "/", "a", "a">> \o RdpAssigned

\* an entry the registry file gives no folder and not both path fields
LacksPathAndFolder(e) ==
    /\ "folder" \notin DOMAIN e
    /\ "otu_table" \notin DOMAIN e \/ "metadata_file" \notin DOMAIN e

\* an entry with both paths explicit, no folder and no summary_file
LacksOnlySummary(e) ==
    /\ "folder" \notin DOMAIN e /\ "summary_file" \notin DOMAIN e
    /\ "otu_table" \in DOMAIN e /\ "metadata_file" \in DOMAIN e

\* the for loop is done with dataset d
Passed(d) == d \in DOMAIN registry /\ d \notin Range(keys)

\* C2: a registry with an entry that has no folder and lacks otu_table or
\* metadata_file never reaches the return statement and returns nothing: the
\* call ends raising; an entry with both paths, no folder and no summary_file
\* does not raise: a warning is printed for it, summary_file stays unset and
\* its defaults are populated.
C2_FatalWithoutPathsWarningWithoutSummary ==
    /\ (\E d \in DOMAIN registry : LacksPathAndFolder(registry[d])) =>
          /\ pc \in {"read_yaml", "raised"}
          /\ ~ret.returned
          /\ pc = "read_yaml" => keys # <<>>
    /\ \A d \in DOMAIN registry : LacksOnlySummary(registry[d]) =>
          /\ ~(pc = "raised" /\ Head(keys) = d)
          /\ Passed(d) =>
                /\ d \in Range(printed)
                /\ "summary_file" \notin DOMAIN datasets[d]
                /\ DefaultFields \subseteq DOMAIN datasets[d]
          /\ pc = "returned" =>
                /\ "summary_file" \notin DOMAIN ret.value[d]
                /\ DefaultFields \subseteq DOMAIN ret.value[d]

\* the call raised at an entry without folder and metadata_file after it had
\* passed, with a warning, an entry that lacks the summary file alone
C2_Witness ==
    /\ pc = "raised"
    /\ ~ret.returned
    /\ keys = <<"ds1">>
    /\ DOMAIN registry = {"ds1", "ds2"}
    /\ LacksPathAndFolder(registry["ds1"])
    /\ "otu_table" \in DOMAIN registry["ds1"]
    /\ LacksOnlySummary(registry["ds2"])
    /\ printed = <<"ds2">>

\* the value each defaulted field gets when the registry file has none
DefaultOf(field) ==
    CASE field = "region"        -> <<"unk">>
      [] field = "sequencer"     -> <<"unk">>
      [] field = "disease_label" -> <<"DiseaseState">>
      [] field = "table_type"    -> <<"classic">>
      [] field = "year"          -> <<"unk">>

\* C3: on return every field an entry had in the registry file has the value
\* it had there, each of region, sequencer, disease_label, table_type, year
\* that was absent holds its default, and every entry has otu_table,
\* metadata_file and the five defaulted fields.
C3_ExplicitKeptDefaultsFilled ==
    pc = "returned" =>
        /\ DOMAIN ret.value = DOMAIN registry
        /\ \A d \in DOMAIN registry :
              /\ \A f \in DOMAIN registry[d] :
                    f \in DOMAIN ret.value[d] /\ ret.value[d][f] = registry[d][f]
              /\ \A f \in DefaultFields \ DOMAIN registry[d] :
                    f \in DOMAIN ret.value[d] /\ ret.value[d][f] = DefaultOf(f)
              /\ {"otu_table", "metadata_file"} \cup DefaultFields \subseteq DOMAIN ret.value[d]

\* an entry with an explicit otu_table, an explicit table_type, an extra
\* field and a folder has been returned
C3_Witness ==
    /\ pc = "returned"
    /\ registry["ds1"] = Entry({"otu_table", "table_type", "condition"}, <<"a", "_", "a">>)
    /\ ret.value["ds1"]["otu_table"] = Explicit("otu_table")
    /\ ret.value["ds1"]["table_type"] = <<"normal">>
    /\ ret.value["ds1"]["condition"] = <<"extra">>
    /\ ret.value["ds1"]["region"] = <<"unk">>
    /\ "metadata_file" \in DOMAIN ret.value["ds1"]

-----------------------------------------------------------------------------
(* read_dfdict_data                                                        *)

\* raw2abun(df), of util: the normalization of an abundance table, whose
\* result the model keeps as a term over the table it was applied to
raw2abun(table) == [raw2abun |-> table]

ChecksBothEmpty(cl) == Len(cl[1]) = 0 /\ Len(cl[2]) = 0

\* line 214
FailsValidation(cl) == Len(cl[1]) = 0 \/ Len(cl[2]) = 0

BundleSwapped(table, m, cl) ==
    [df |-> table, meta |-> m, dis_smpls |-> get_samples(m, cl)[1],
     H_smpls |-> get_samples(m, cl)[2], classes |-> cl]

\* lines 216-218: H_smpls, dis_smpls = get_samples(meta, classes_list) and the
\* dict of the dataset
Bundle(table, m, cl) ==
    [df |-> table, meta |-> m, dis_smpls |-> get_samples(m, cl)[2],
     H_smpls |-> get_samples(m, cl)[1], classes |-> cl]

MaxBatchRows == 2     \* most data rows of a metadata file of the batch directory

BatchIdTexts == {"s1", "1001", "NA"}
BatchLabels  == {"H", "CD", "Unknown"}

BatchMetaFiles(n) == SeqsUpTo(BatchIdTexts \X BatchLabels, n)
BatchOtuFiles     == { <<>>, << <<"s1", "5">>, <<"1001", "0">> >> }

\* the metadata files of the second dataset: both groups, controls only,
\* diseases only, no label of either vocabulary
OtherMetaFiles ==
    { << <<"s1", "H">>, <<"s2", "CD">>, <<"s3", "Unknown">> >>,
      << <<"s1", "H">>, <<"s2", "H">> >>,
      << <<"s1", "CD">> >>,
      << <<"s1", "Unknown">> >> }

\* the files a directory holds for dataset id: none, one of the two, or both
FilesOf(id, metas, otus) ==
    { [f \in {} |-> NoRows],
      [f \in {fnotu(id)} |-> NoRows],
      [f \in {fnmeta(id)} |-> NoRows] }
    \cup { [f \in {fnotu(id), fnmeta(id)} |-> IF f = fnotu(id) THEN o ELSE m] :
             m \in metas, o \in otus }

Merged(a, b) == [f \in DOMAIN a \cup DOMAIN b |-> IF f \in DOMAIN a THEN a[f] ELSE b[f]]

BatchFolders ==
    { Merged(a, b) : a \in FilesOf(<<"A">>, BatchMetaFiles(MaxBatchRows), BatchOtuFiles),
                     b \in FilesOf(<<"B">>, OtherMetaFiles, { << <<"s1", "7">> >> }) }

NoBundles == [d \in {} |-> Null]

InitBatch ==
    /\ pc = "read_dfdict_data"
    /\ clean_folder \in BatchFolders
    /\ datasetids = <<>>
    /\ visited = <<>>
    /\ dfdict = NoBundles
    /\ datasetid = Null /\ meta = Null /\ df = Null /\ classes_list = Null
    /\ ret = NotReturned
    /\ batch_data_dir = Null /\ registry = Null /\ datasets = Null
    /\ keys = Null /\ printed = Null

\* lines 203-205
BatchScan ==
    /\ pc = "read_dfdict_data"
    /\ \E order \in Orders(CandidateIds(DOMAIN clean_folder)) :
          datasetids' = get_dataset_ids(DOMAIN clean_folder, order)
    /\ dfdict' = NoBundles
    /\ pc' = "for"
    /\ UNCHANGED <<clean_folder, yamlVars, tableVars, visited, ret>>

\* one pass of the for loop of line 206 that reaches line 218
BatchDataset ==
    /\ pc = "for"
    /\ datasetids # <<>>
    /\ LET dataset == Head(datasetids)
           table   == raw2abun(LoadedDf(clean_folder[fnotu(dataset)]))
           m       == LoadedMeta(clean_folder[fnmeta(dataset)])
       IN  \E labels \in Orders(DiseaseStateSet(m)) :
              /\ ~FailsValidation(get_classes(m, labels))
              /\ datasetid' = dataset
              /\ df' = table
              /\ meta' = m
              /\ classes_list' = get_classes(m, labels)
              /\ dfdict' = With(dfdict, dataset, Bundle(table, m, get_classes(m, labels)))
              /\ visited' = Append(visited, dataset)
    /\ datasetids' = Tail(datasetids)
    /\ UNCHANGED <<pc, ret, clean_folder, yamlVars>>

\* one pass of the for loop that ends at line 215
BatchDatasetRaises ==
    /\ pc = "for"
    /\ datasetids # <<>>
    /\ LET dataset == Head(datasetids)
           table   == raw2abun(LoadedDf(clean_folder[fnotu(dataset)]))
           m       == LoadedMeta(clean_folder[fnmeta(dataset)])
       IN  \E labels \in Orders(DiseaseStateSet(m)) :
              /\ FailsValidation(get_classes(m, labels))
              /\ datasetid' = dataset
              /\ df' = table
              /\ meta' = m
              /\ classes_list' = get_classes(m, labels)
              /\ visited' = Append(visited, dataset)
    /\ pc' = "raised"
    /\ UNCHANGED <<ret, clean_folder, yamlVars, datasetids, dfdict>>

\* lines 219-220
BatchReturn ==
    /\ pc = "for"
    /\ datasetids = <<>>
    /\ ret' = Returned(dfdict)
    /\ pc' = "returned"
    /\ UNCHANGED <<clean_folder, yamlVars, tableVars, batchVars>>

NextBatch == BatchScan \/ BatchDataset \/ BatchDatasetRaises \/ BatchReturn

SpecBatch == InitBatch /\ [][NextBatch]_vars

\* the dataset ids of the directory: those with both clean files
FoundIds == { d \in { SplitFirst(f, ".") : f \in DOMAIN clean_folder } :
                 fnotu(d) \in DOMAIN clean_folder /\ fnmeta(d) \in DOMAIN clean_folder }

\* the labels the metadata file of dataset d holds in the vocabulary voc
LabelsOfIn(d, voc) ==
    { clean_folder[fnmeta(d)][k][2] : k \in DOMAIN clean_folder[fnmeta(d)] } \cap voc

\* get_classes gives dataset d an empty control list or an empty disease list
HasEmptyGroup(d) ==
    LabelsOfIn(d, ControlVocabulary) = {} \/ LabelsOfIn(d, DiseaseVocabulary) = {}

\* C8: when get_classes yields an empty control or disease list for a dataset
\* of the directory, read_dfdict_data ends raising: it never reaches its
\* return, returns no mapping, and once it has raised no dataset after the
\* failing one has been loaded or classified, nor is any later.
C8_EmptyGroupAbortsBatch ==
    /\ (\E d \in FoundIds : HasEmptyGroup(d)) =>
          /\ pc \in {"read_dfdict_data", "for", "raised"}
          /\ ~ret.returned
          /\ pc = "for" => datasetids # <<>>
    /\ pc = "raised" =>
          /\ ~ret.returned
          /\ visited # <<>>
          /\ visited[Len(visited)] = Head(datasetids)
          /\ HasEmptyGroup(Head(datasetids))
          /\ \A k \in 2..Len(datasetids) :
                datasetids[k] \notin Range(visited) /\ datasetids[k] \notin DOMAIN dfdict
          /\ ~ENABLED NextBatch

\* the batch raised at a dataset with control labels only, having bundled one
\* dataset before it
C8_Witness ==
    /\ pc = "raised"
    /\ visited = << <<"A">>, <<"B">> >>
    /\ DOMAIN dfdict = { <<"A">> }
    /\ clean_folder[fnmeta(<<"B">>)] = << <<"s1", "H">>, <<"s2", "H">> >>
    /\ ~ret.returned

\* the batch raised at the first of two datasets
C8_WitnessNoneAfter ==
    /\ pc = "raised"
    /\ Len(datasetids) = 2
    /\ Len(visited) = 1
    /\ DOMAIN dfdict = {}

\* C9: when no dataset fails validation the keys of the returned mapping are
\* the ids get_dataset_ids finds, and each bundle holds under 'meta' the
\* metadata loaded for its id, under 'df' the normalization of the abundance
\* table loaded for it, under 'classes' get_classes(meta), under 'H_smpls' the
\* controls and under 'dis_smpls' the diseases of get_samples(meta, classes).
C9_BundlesOfAllIds ==
    pc = "returned" =>
        /\ DOMAIN ret.value = FoundIds
        /\ \A d \in DOMAIN ret.value :
              LET b == ret.value[d] IN
              /\ b.meta = LoadedMeta(clean_folder[d \o MetaClean])
              /\ b.df = [raw2abun |-> LoadedDf(clean_folder[d \o OtuClean])]
              /\ \E labels \in Orders(DiseaseStateSet(b.meta)) :
                    b.classes = get_classes(b.meta, labels)
              /\ b.H_smpls = IndexWhereIsin(b.meta, b.classes[1])
              /\ b.dis_smpls = IndexWhereIsin(b.meta, b.classes[2])

\* two datasets have been bundled and returned
C9_Witness ==
    /\ pc = "returned"
    /\ DOMAIN ret.value = { <<"A">>, <<"B">> }
    /\ ret.value[<<"B">>].H_smpls = <<Str("s1")>>
    /\ ret.value[<<"B">>].dis_smpls = <<Str("s2")>>
    /\ ret.value[<<"A">>].classes = << <<"H">>, <<"CD">> >>
    /\ Len(ret.value[<<"A">>].meta) = 2

\* C10: in every bundle of a returned mapping H_smpls and dis_smpls are both
\* non-empty, share no sample id when the metadata's sample ids are distinct,
\* and hold only row index values of the bundle's meta.
C10_GroupsNonEmptyDisjointFromMeta ==
    pc = "returned" =>
        \A d \in DOMAIN ret.value :
            LET b == ret.value[d] IN
            /\ b.H_smpls # <<>>
            /\ b.dis_smpls # <<>>
            /\ NoDuplicates(IndexOf(b.meta)) => Range(b.H_smpls) \cap Range(b.dis_smpls) = {}
            /\ Range(b.H_smpls) \cup Range(b.dis_smpls) \subseteq Range(IndexOf(b.meta))

\* a bundle with distinct sample ids, one control and one disease sample and
\* a sample of neither group has been returned
C10_Witness ==
    /\ pc = "returned"
    /\ <<"B">> \in DOMAIN ret.value
    /\ Len(ret.value[<<"B">>].meta) = 3
    /\ NoDuplicates(IndexOf(ret.value[<<"B">>].meta))
    /\ Len(ret.value[<<"B">>].H_smpls) = 1
    /\ Len(ret.value[<<"B">>].dis_smpls) = 1

=============================================================================
